---- MODULE Spec2Model ----
(***************************************************************************)
(* Model of the hat try-on application: the frame loop of HatTryOnApp,     *)
(* the landmark handler MediaPipeHandler, the transform mapper             *)
(* HatRenderer.updateHatPosition and the smoothing filter of Utils.        *)
(*                                                                         *)
(* Numbers are exact rationals <<n, d>> (d > 0, lowest terms); the IEEE    *)
(* rounding of JavaScript doubles is not represented.  Angles are kept in  *)
(* units of pi, so that atan2 is exact on the eight compass directions,    *)
(* which is where every landmark sample below puts its arguments.          *)
(***************************************************************************)
EXTENDS Integers, Sequences, FiniteSets, TLC

\* ---------------------------------------------------------------- bounds
MaxFrames == 3
MaxChains == 2
MaxSettingChanges == 1

\* null / undefined
NULL == <<>>

\* ------------------------------------------------------------- rationals
Abs(n) == IF n < 0 THEN -n ELSE n

RECURSIVE GCD(_, _)
GCD(a, b) == IF b = 0 THEN a ELSE GCD(b, a % b)

Norm(n, d) ==
    LET g == GCD(Abs(n), d) IN <<n \div g, d \div g>>

Q(n, d) == Norm(n, d)
RInt(n) == <<n, 1>>
RZero == <<0, 1>>
ROne == <<1, 1>>
RHalf == <<1, 2>>

RAdd(a, b) == Norm(a[1] * b[2] + b[1] * a[2], a[2] * b[2])
RNeg(a) == <<-a[1], a[2]>>
RSub(a, b) == RAdd(a, RNeg(b))
RMul(a, b) == Norm(a[1] * b[1], a[2] * b[2])
RLe(a, b) == a[1] * b[2] <= b[1] * a[2]
RLt(a, b) == a[1] * b[2] < b[1] * a[2]
RMin(a, b) == IF RLe(a, b) THEN a ELSE b
RMax(a, b) == IF RLe(a, b) THEN b ELSE a

\* Math.sqrt on the rationals that have a rational root
ISqrt(k) == CHOOSE r \in 0..k : r * r = k
RSqrt(a) == <<ISqrt(a[1]), ISqrt(a[2])>>

\* Math.atan2(y, x) in units of pi, on the compass directions
Atan2(y, x) ==
    LET sy == IF y[1] > 0 THEN 1 ELSE IF y[1] < 0 THEN -1 ELSE 0
        sx == IF x[1] > 0 THEN 1 ELSE IF x[1] < 0 THEN -1 ELSE 0
    IN  CASE sy = 0 /\ sx >= 0 -> RZero
          [] sy = 0 /\ sx < 0 -> ROne
          [] sx = 0 /\ sy > 0 -> Q(1, 2)
          [] sx = 0 /\ sy < 0 -> Q(-1, 2)
          [] sx > 0 /\ Abs(y[1]) * x[2] = Abs(x[1]) * y[2] -> Q(sy, 4)
          [] sx < 0 /\ Abs(y[1]) * x[2] = Abs(x[1]) * y[2] -> Q(3 * sy, 4)

Vec(x, y, z) == [x |-> x, y |-> y, z |-> z]

\* ------------------------------------------------------------ Utils (js)
\* smooth without its blend: the previous value is ignored
smooth_IgnoresPrevious(current, previous, factor) == current

\* smooth with the weight of the current value left out
smooth_Overshoots(current, previous, factor) ==
    IF previous = NULL THEN current
    ELSE RAdd(RMul(previous, factor), current)

\* smooth with the two weights exchanged
smooth_SwapsWeights(current, previous, factor) ==
    IF previous = NULL THEN current
    ELSE RAdd(RMul(previous, RSub(ROne, factor)), RMul(current, factor))

\* Utils.smooth
smooth(current, previous, factor) ==
    IF previous = NULL THEN current
    ELSE RAdd(RMul(previous, factor), RMul(current, RSub(ROne, factor)))

\* smooth3D that takes an absent previous vector for the origin
smooth3D_BlendsFromOrigin(current, previous, factor) ==
    LET prev == IF previous = NULL THEN Vec(RZero, RZero, RZero) ELSE previous
    IN  [x |-> smooth(current.x, prev.x, factor),
         y |-> smooth(current.y, prev.y, factor),
         z |-> smooth(current.z, prev.z, factor)]

\* Utils.smooth3D
smooth3D(current, previous, factor) ==
    IF previous = NULL THEN current
    ELSE [x |-> smooth(current.x, previous.x, factor),
          y |-> smooth(current.y, previous.y, factor),
          z |-> smooth(current.z, previous.z, factor)]

\* Utils.distance3D
distance3D(p1, p2) ==
    LET dx == RSub(p2.x, p1.x)
        dy == RSub(p2.y, p1.y)
        dz == RSub(p2.z, p1.z)
    IN  RSqrt(RAdd(RAdd(RMul(dx, dx), RMul(dy, dy)), RMul(dz, dz)))

\* ------------------------------------------------------ MediaPipeHandler
\* the landmark roles read by extractFaceData and calculateHeadRotation
RequiredRoles ==
    {"noseTip", "foreheadTop", "chin", "leftEye", "rightEye",
     "leftTemple", "rightTemple"}

\* calculateHeadRotation with the roll taken from the unsigned horizontal
\* distance of the eyes
calculateHeadRotation_IgnoresEyeOrder(landmarks) ==
    LET noseTip == landmarks["noseTip"]
        forehead == landmarks["foreheadTop"]
        chin == landmarks["chin"]
        leftEye == landmarks["leftEye"]
        rightEye == landmarks["rightEye"]
        eyeCenter == [x |-> RMul(RAdd(leftEye.x, rightEye.x), RHalf),
                      z |-> RMul(RAdd(leftEye.z, rightEye.z), RHalf)]
        yaw == RSub(Atan2(RSub(noseTip.z, eyeCenter.z),
                          RSub(noseTip.x, eyeCenter.x)), RHalf)
        faceVertical == RSub(chin.y, forehead.y)
        faceDepth == RSub(noseTip.z, RMul(RAdd(forehead.z, chin.z), RHalf))
        pitch == Atan2(faceDepth, faceVertical)
        dx == RSub(rightEye.x, leftEye.x)
        roll == Atan2(RSub(rightEye.y, leftEye.y), <<Abs(dx[1]), dx[2]>>)
    IN  [pitch |-> pitch, yaw |-> yaw, roll |-> roll]

\* MediaPipeHandler.calculateHeadRotation (angles in units of pi)
calculateHeadRotation(landmarks) ==
    LET noseTip == landmarks["noseTip"]
        forehead == landmarks["foreheadTop"]
        chin == landmarks["chin"]
        leftEye == landmarks["leftEye"]
        rightEye == landmarks["rightEye"]
        eyeCenter == [x |-> RMul(RAdd(leftEye.x, rightEye.x), RHalf),
                      z |-> RMul(RAdd(leftEye.z, rightEye.z), RHalf)]
        yaw == RSub(Atan2(RSub(noseTip.z, eyeCenter.z),
                          RSub(noseTip.x, eyeCenter.x)), RHalf)
        faceVertical == RSub(chin.y, forehead.y)
        faceDepth == RSub(noseTip.z, RMul(RAdd(forehead.z, chin.z), RHalf))
        pitch == Atan2(faceDepth, faceVertical)
        roll == Atan2(RSub(rightEye.y, leftEye.y), RSub(rightEye.x, leftEye.x))
    IN  [pitch |-> pitch, yaw |-> yaw, roll |-> roll]

\* MediaPipeHandler.extractFaceData; reading a coordinate of a missing
\* landmark throws
Throws(landmarks) == ~(RequiredRoles \subseteq DOMAIN landmarks)

extractFaceData(landmarks) ==
    LET forehead == landmarks["foreheadTop"]
        chin == landmarks["chin"]
        leftEye == landmarks["leftEye"]
        rightEye == landmarks["rightEye"]
        leftTemple == landmarks["leftTemple"]
        rightTemple == landmarks["rightTemple"]
    IN  [center |-> Vec(RMul(RAdd(leftEye.x, rightEye.x), RHalf),
                        RMul(RAdd(leftEye.y, rightEye.y), RHalf),
                        RMul(RAdd(leftEye.z, rightEye.z), RHalf)),
         headTop |-> Vec(forehead.x,
                         RSub(forehead.y,
                              RMul(RSub(chin.y, forehead.y), Q(3, 10))),
                         forehead.z),
         forehead |-> forehead,
         faceWidth |-> distance3D(leftTemple, rightTemple),
         rotation |-> calculateHeadRotation(landmarks)]

\* --------------------------------------------------- inputs of the model
P(x, y, z) == Vec(Q(x, 100), Q(y, 100), Q(z, 100))

\* a face looking at the camera, coordinates in hundredths
FaceFront ==
    [noseTip |-> P(50, 45, 30), foreheadTop |-> P(50, 30, 0),
     chin |-> P(50, 60, 0), leftEye |-> P(40, 40, 0),
     rightEye |-> P(60, 40, 0), leftTemple |-> P(30, 40, 0),
     rightTemple |-> P(70, 40, 0)]

\* a nearer face (twice the width), turned and tilted
FaceNear ==
    [noseTip |-> P(70, 45, 20), foreheadTop |-> P(25, 30, 10),
     chin |-> P(50, 60, 30), leftEye |-> P(40, 40, 0),
     rightEye |-> P(60, 60, 0), leftTemple |-> P(10, 40, 0),
     rightTemple |-> P(90, 40, 0)]

\* a face reported without its chin landmark
FaceNoChin ==
    [r \in RequiredRoles \ {"chin"} |-> FaceFront[r]]

LandmarkSets == {FaceFront, FaceNear, FaceNoChin}

\* what the tracker hands to its listener: no face, or one landmark set
TrackerResults ==
    {[multiFaceLandmarks |-> <<>>]}
        \cup {[multiFaceLandmarks |-> <<l>>] : l \in LandmarkSets}

\* faces as FaceFront with the two eyes moved over a grid, the nose kept
\* midway between them; the eye line points in a compass direction
EyeXs == {30, 40, 50, 60, 70}
EyeYs == {40, 50, 60}
EyeLine(xl, yl, xr, yr) ==
    [FaceFront EXCEPT
        !["leftEye"] = P(xl, yl, 0),
        !["rightEye"] = P(xr, yr, 0),
        !["noseTip"] = Vec(Q(xl + xr, 200), Q(45, 100), Q(30, 100))]
EyeLineSets ==
    {EyeLine(e[1], e[2], e[3], e[4]) :
        e \in {g \in EyeXs \X EyeYs \X EyeXs \X EyeYs :
                  \/ g[1] = g[3]
                  \/ g[2] = g[4]
                  \/ Abs(g[3] - g[1]) = Abs(g[4] - g[2])}}

ScaleValues == {ROne, RHalf}
YOffsetValues == {RZero, RInt(50)}
ZOffsetValues == {RZero, RInt(50)}
SmoothingValues == {RZero, RHalf, ROne}

\* ------------------------------------------------------------------ state
VARIABLES
    appPhase,          \* HatTryOnApp.init: where the constructor's init() is
    isReady,           \* MediaPipeHandler.isReady
    hat,               \* HatRenderer.hat: NULL or the group's transform
    hatLoaded,         \* HatRenderer.hatLoaded
    smoothedPosition,  \* HatRenderer.smoothedPosition
    smoothedRotation,  \* HatRenderer.smoothedRotation
    smoothedScale,     \* HatRenderer.smoothedScale
    settings,          \* HatRenderer.settings
    isRunning,         \* HatTryOnApp.isRunning
    startBtnDisabled,  \* startBtn.disabled: startCamera is awaiting
    videoWidth,        \* video.videoWidth is nonzero
    currentFaceData,   \* HatTryOnApp.currentFaceData
    loop,              \* renderLoop chains: how many await send / a frame
    frames,            \* number of frame iterations begun
    settingChanges,    \* number of slider inputs handled
    last,              \* what the latest frame iteration did
    seen               \* least and greatest baseScale applied so far

vars ==
    <<appPhase, isReady, hat, hatLoaded, smoothedPosition, smoothedRotation,
      smoothedScale, settings, isRunning, startBtnDisabled, videoWidth,
      currentFaceData, loop, frames, settingChanges, last, seen>>

rendererVars == <<hat, hatLoaded, smoothedPosition, smoothedRotation, smoothedScale>>
cameraVars == <<isRunning, startBtnDisabled, videoWidth>>

NoIteration ==
    [n |-> 0, reply |-> "none", extracted |-> FALSE,
     updated |-> FALSE, rendered |-> FALSE, running |-> FALSE,
     scheduled |-> FALSE, wasVisible |-> FALSE, wasSet |-> FALSE]

\* HatTryOnApp.constructor, MediaPipeHandler.constructor,
\* HatRenderer.constructor
Init ==
    /\ appPhase = "initializing"
    /\ isReady = FALSE
    /\ hat = NULL
    /\ hatLoaded = FALSE
    /\ smoothedPosition = NULL
    /\ smoothedRotation = NULL
    /\ smoothedScale = ROne
    /\ settings = [scale |-> ROne, yOffset |-> RZero, zOffset |-> RZero,
                   smoothing |-> RHalf]
    /\ isRunning = FALSE
    /\ startBtnDisabled = FALSE
    /\ videoWidth = FALSE
    /\ currentFaceData = NULL
    /\ loop = [send |-> 0, raf |-> 0]
    /\ frames = 0
    /\ settingChanges = 0
    /\ last = NoIteration
    /\ seen = [lo |-> ROne, hi |-> ROne]

\* ------------------------------------------------------------ HatRenderer
\* the scale handed to the filter: faceWidth * 3 * settings.scale
BaseScale(faceData) ==
    RMul(RMul(faceData.faceWidth, RInt(3)), settings.scale)

\* the position handed to the filter
TargetPosition(faceData) ==
    LET sceneX == RMul(RNeg(RSub(faceData.forehead.x, RHalf)), RInt(2))
        sceneY == RMul(RNeg(RSub(faceData.forehead.y, RHalf)), RInt(2))
    IN  [x |-> sceneX,
         y |-> RAdd(sceneY, RMul(settings.yOffset, Q(1, 100))),
         z |-> RAdd(RMul(faceData.forehead.z, RInt(2)),
                    RMul(settings.zOffset, Q(1, 100)))]

\* the rotation handed to the filter
TargetRotation(faceData) ==
    [x |-> RMul(faceData.rotation.pitch, RHalf),
     y |-> RMul(RNeg(faceData.rotation.yaw), Q(8, 10)),
     z |-> faceData.rotation.roll]

\* updateHatPosition that resets the smoothed pose when the face is lost
updateHatPosition_ResetsOnLoss(faceData) ==
    IF hat = NULL \/ ~hatLoaded
    THEN UNCHANGED <<hat, smoothedPosition, smoothedRotation, smoothedScale>>
    ELSE IF ~faceData.detected
    THEN /\ hat' = [hat EXCEPT !.visible = FALSE]
         /\ smoothedPosition' = NULL
         /\ smoothedRotation' = NULL
         /\ UNCHANGED smoothedScale
    ELSE LET smoothing == settings.smoothing
             position == smooth3D(TargetPosition(faceData), smoothedPosition,
                                  smoothing)
             rotation == smooth3D(TargetRotation(faceData), smoothedRotation,
                                  smoothing)
             scale == smooth(BaseScale(faceData), smoothedScale, smoothing)
         IN  /\ smoothedPosition' = position
             /\ smoothedRotation' = rotation
             /\ smoothedScale' = scale
             /\ hat' = [visible |-> TRUE, position |-> position,
                        rotation |-> rotation, scale |-> scale]

\* updateHatPosition that returns on an undetected frame without hiding
updateHatPosition_KeepsVisible(faceData) ==
    IF hat = NULL \/ ~hatLoaded \/ ~faceData.detected
    THEN UNCHANGED <<hat, smoothedPosition, smoothedRotation, smoothedScale>>
    ELSE LET smoothing == settings.smoothing
             position == smooth3D(TargetPosition(faceData), smoothedPosition,
                                  smoothing)
             rotation == smooth3D(TargetRotation(faceData), smoothedRotation,
                                  smoothing)
             scale == smooth(BaseScale(faceData), smoothedScale, smoothing)
         IN  /\ smoothedPosition' = position
             /\ smoothedRotation' = rotation
             /\ smoothedScale' = scale
             /\ hat' = [visible |-> TRUE, position |-> position,
                        rotation |-> rotation, scale |-> scale]

\* HatRenderer.updateHatPosition
updateHatPosition(faceData) ==
    IF hat = NULL \/ ~hatLoaded
    THEN UNCHANGED <<hat, smoothedPosition, smoothedRotation, smoothedScale>>
    ELSE IF ~faceData.detected
    THEN /\ hat' = [hat EXCEPT !.visible = FALSE]
         /\ UNCHANGED <<smoothedPosition, smoothedRotation, smoothedScale>>
    ELSE LET smoothing == settings.smoothing
             position == smooth3D(TargetPosition(faceData), smoothedPosition,
                                  smoothing)
             rotation == smooth3D(TargetRotation(faceData), smoothedRotation,
                                  smoothing)
             scale == smooth(BaseScale(faceData), smoothedScale, smoothing)
         IN  /\ smoothedPosition' = position
             /\ smoothedRotation' = rotation
             /\ smoothedScale' = scale
             /\ hat' = [visible |-> TRUE, position |-> position,
                        rotation |-> rotation, scale |-> scale]

\* HatRenderer.updateSettings
updateSettings(field, value) ==
    /\ appPhase = "ready"
    /\ settingChanges < MaxSettingChanges
    /\ value # settings[field]
    /\ settings' = [settings EXCEPT ![field] = value]
    /\ settingChanges' = settingChanges + 1
    /\ UNCHANGED <<appPhase, isReady, rendererVars, cameraVars,
                   currentFaceData, loop, frames, last, seen>>

\* the four slider "input" listeners of setupEventListeners
ScaleSliderInput == \E v \in ScaleValues : updateSettings("scale", v)
YOffsetSliderInput == \E v \in YOffsetValues : updateSettings("yOffset", v)
ZOffsetSliderInput == \E v \in ZOffsetValues : updateSettings("zOffset", v)
SmoothingSliderInput == \E v \in SmoothingValues : updateSettings("smoothing", v)

\* ------------------------------------------------------- HatTryOnApp.init
\* init that goes on to the renderer and the listeners whatever
\* mediaPipe.init() returned
InitTracker_GoesOn(mpReady) ==
    /\ appPhase = "initializing"
    /\ isReady' = mpReady
    /\ appPhase' = "loadingHat"
    /\ UNCHANGED <<rendererVars, settings, cameraVars, currentFaceData, loop,
                   frames, settingChanges, last, seen>>

\* init up to the result of mediaPipe.init(): MediaPipeHandler.init sets
\* isReady and returns true, or catches and returns false
InitTracker(mpReady) ==
    /\ appPhase = "initializing"
    /\ isReady' = mpReady
    /\ appPhase' = IF mpReady THEN "loadingHat" ELSE "failed"
    /\ UNCHANGED <<rendererVars, settings, cameraVars, currentFaceData, loop,
                   frames, settingChanges, last, seen>>

\* init after mediaPipe.init(): the renderer is built, the model is
\* loaded (loadHat) or replaced by createFallbackHat, and the listeners
\* are installed
InitHat(loadResult) ==
    /\ appPhase = "loadingHat"
    /\ hat' = [visible |-> FALSE,
               position |-> Vec(RZero, RZero, RZero),
               rotation |-> Vec(RZero, RZero, RZero),
               scale |-> IF loadResult THEN Q(3, 10) ELSE ROne]
    /\ hatLoaded' = TRUE
    /\ appPhase' = "ready"
    /\ UNCHANGED <<isReady, smoothedPosition, smoothedRotation, smoothedScale,
                   settings, cameraVars, currentFaceData, loop, frames,
                   settingChanges, last, seen>>

\* ----------------------------------------------------------- frame loop
\* MediaPipeHandler.processResults: what is handed to onResults, or the
\* exception of extractFaceData
THROWN == [thrown |-> TRUE]

processResults(results) ==
    IF Len(results.multiFaceLandmarks) = 0
    THEN [detected |-> FALSE]
    ELSE LET landmarks == results.multiFaceLandmarks[1]
         IN  IF Throws(landmarks) THEN THROWN
             ELSE [detected |-> TRUE, rawLandmarks |-> landmarks]
                      @@ extractFaceData(landmarks)

\* a chain of renderLoop calls goes from one place to another: "new" (the
\* call in startCamera), "send" (awaiting processFrame), "raf" (awaiting
\* the animation frame), "none" (returned without rescheduling)
Move(from, to) ==
    [k \in {"send", "raf"} |->
        loop[k] - (IF k = from THEN 1 ELSE 0) + (IF k = to THEN 1 ELSE 0)]

\* what processResults makes of the tracker's results
Delivered == {processResults(results) : results \in TrackerResults}

\* renderLoop after its await: updateHatPosition with currentFaceData,
\* render, requestAnimationFrame.  faceData is currentFaceData as the
\* listener (onFaceResults), if it ran, has left it.
AfterProcessFrame(from, reply, faceData, running) ==
    /\ currentFaceData' = faceData
    /\ IF faceData # NULL
       THEN updateHatPosition(faceData)
       ELSE UNCHANGED <<hat, smoothedPosition, smoothedRotation, smoothedScale>>
    /\ loop' = Move(from, "raf")
    /\ last' = [n |-> last.n + 1, reply |-> reply,
                extracted |-> reply \in {"face", "malformed"},
                updated |-> faceData # NULL, rendered |-> TRUE,
                running |-> running, scheduled |-> TRUE,
                wasVisible |-> hat # NULL /\ hat.visible,
                wasSet |-> smoothedPosition # NULL]
    /\ seen' = IF faceData # NULL /\ faceData.detected /\ hat # NULL /\ hatLoaded
               THEN [lo |-> RMin(seen.lo, BaseScale(faceData)),
                     hi |-> RMax(seen.hi, BaseScale(faceData))]
               ELSE seen
    /\ UNCHANGED hatLoaded

\* renderLoop up to its await: the isRunning test and processFrame, which
\* sends the frame to the tracker or returns at once
renderLoop(from, running, width) ==
    IF ~running
    THEN /\ loop' = Move(from, "none")
         /\ UNCHANGED <<rendererVars, currentFaceData, frames, last, seen>>
    ELSE /\ frames' = frames + 1
         /\ IF isReady /\ width
            THEN /\ loop' = Move(from, "send")
                 /\ UNCHANGED <<rendererVars, currentFaceData, last, seen>>
            ELSE AfterProcessFrame(from, "none", currentFaceData, running)

\* the callback of requestAnimationFrame
AnimationFrame ==
    /\ loop.raf > 0
    /\ isRunning => frames < MaxFrames
    /\ renderLoop("raf", isRunning, videoWidth)
    /\ UNCHANGED <<appPhase, isReady, settings, cameraVars, settingChanges>>

\* faceMesh.send settles after the listener has run: processResults,
\* onFaceResults, then the rest of renderLoop
TrackerReply ==
    /\ loop.send > 0
    /\ \E faceData \in Delivered \ {THROWN} :
          AfterProcessFrame("send",
              IF faceData.detected THEN "face" ELSE "noface",
              faceData, isRunning)
    /\ UNCHANGED <<appPhase, isReady, settings, cameraVars, frames,
                   settingChanges>>

\* the listener throws in extractFaceData and the rejection reaches
\* renderLoop's await: nothing after the await runs
TrackerReplyRejected ==
    /\ loop.send > 0
    /\ THROWN \in Delivered
    /\ loop' = Move("send", "none")
    /\ last' = [n |-> last.n + 1, reply |-> "malformed",
                extracted |-> TRUE, updated |-> FALSE, rendered |-> FALSE,
                running |-> isRunning, scheduled |-> FALSE,
                wasVisible |-> hat # NULL /\ hat.visible,
                wasSet |-> smoothedPosition # NULL]
    /\ UNCHANGED <<appPhase, isReady, rendererVars, settings, cameraVars,
                   currentFaceData, frames, settingChanges, seen>>

\* the listener throws in extractFaceData and the tracker library keeps
\* the exception to itself: send resolves, onFaceResults never ran
TrackerReplySwallowed ==
    /\ loop.send > 0
    /\ THROWN \in Delivered
    /\ AfterProcessFrame("send", "malformed", currentFaceData, isRunning)
    /\ UNCHANGED <<appPhase, isReady, settings, cameraVars, frames,
                   settingChanges>>

\* ---------------------------------------------------------------- camera
\* HatTryOnApp.stopCamera
stopCamera ==
    /\ isRunning' = FALSE
    /\ videoWidth' = FALSE
    /\ UNCHANGED startBtnDisabled

\* HatTryOnApp.startCamera up to its awaits (getUserMedia, loadedmetadata)
startCamera ==
    /\ startBtnDisabled' = TRUE
    /\ UNCHANGED <<isRunning, videoWidth>>

\* the click listener of the start button; a disabled button gets no click
toggleCamera ==
    /\ appPhase = "ready"
    /\ ~startBtnDisabled
    /\ IF isRunning THEN stopCamera ELSE startCamera
    /\ UNCHANGED <<appPhase, isReady, rendererVars, settings, currentFaceData,
                   loop, frames, settingChanges, last, seen>>

\* startCamera after its awaits: isRunning is set and renderLoop is called
CameraStarted ==
    /\ startBtnDisabled
    /\ frames < MaxFrames
    /\ loop.send + loop.raf < MaxChains
    /\ renderLoop("new", TRUE, TRUE)
    /\ isRunning' = TRUE
    /\ videoWidth' = TRUE
    /\ startBtnDisabled' = FALSE
    /\ UNCHANGED <<appPhase, isReady, settings, settingChanges>>

\* startCamera's catch: getUserMedia rejected
CameraDenied ==
    /\ startBtnDisabled
    /\ startBtnDisabled' = FALSE
    /\ UNCHANGED <<appPhase, isReady, rendererVars, settings, isRunning,
                   videoWidth, currentFaceData, loop, frames, settingChanges,
                   last, seen>>

Next ==
    \/ \E mpReady \in BOOLEAN : InitTracker(mpReady)
    \/ \E loadResult \in BOOLEAN : InitHat(loadResult)
    \/ ScaleSliderInput
    \/ YOffsetSliderInput
    \/ ZOffsetSliderInput
    \/ SmoothingSliderInput
    \/ toggleCamera
    \/ CameraStarted
    \/ CameraDenied
    \/ AnimationFrame
    \/ TrackerReply
    \/ TrackerReplyRejected
    \/ TrackerReplySwallowed

Spec == Init /\ [][Next]_vars

TypeOK ==
    /\ appPhase \in {"initializing", "loadingHat", "ready", "failed"}
    /\ isReady \in BOOLEAN /\ hatLoaded \in BOOLEAN
    /\ isRunning \in BOOLEAN /\ startBtnDisabled \in BOOLEAN
    /\ videoWidth \in BOOLEAN
    /\ loop.send \in 0..MaxChains /\ loop.raf \in 0..MaxChains
    /\ loop.send + loop.raf <= MaxChains
    /\ frames \in 0..MaxFrames
    /\ settingChanges \in 0..MaxSettingChanges

\* ------------------------------------------------------------ properties
\* steps of the frame loop, as seen from the two states of a step
IterationStep == last'.n # last.n
HatPresent == hat # NULL /\ hatLoaded
UndetectedStep ==
    IterationStep /\ last'.updated /\ HatPresent /\ ~currentFaceData'.detected
DetectedStep ==
    IterationStep /\ last'.updated /\ HatPresent /\ currentFaceData'.detected

\* previous * f + current * (1 - f), written out
Blend(current, previous, f) ==
    RAdd(RMul(previous, f), RMul(current, RSub(ROne, f)))
Blend3(current, previous, f) ==
    [x |-> Blend(current.x, previous.x, f),
     y |-> Blend(current.y, previous.y, f),
     z |-> Blend(current.z, previous.z, f)]

\* the raw targets of a detected frame, written out from the settings
RawPosition(d) ==
    [x |-> RMul(RSub(RHalf, d.forehead.x), RInt(2)),
     y |-> RAdd(RMul(RSub(RHalf, d.forehead.y), RInt(2)),
                Q(settings.yOffset[1], 100 * settings.yOffset[2])),
     z |-> RAdd(RMul(d.forehead.z, RInt(2)),
                Q(settings.zOffset[1], 100 * settings.zOffset[2]))]
RawRotation(d) ==
    [x |-> Q(d.rotation.pitch[1], 2 * d.rotation.pitch[2]),
     y |-> Q(-4 * d.rotation.yaw[1], 5 * d.rotation.yaw[2]),
     z |-> d.rotation.roll]
RawScale(d) ==
    Q(3 * d.faceWidth[1] * settings.scale[1], d.faceWidth[2] * settings.scale[2])

\* C1: with a hat loaded, updateHatPosition({detected: false}) hides the hat
\* and leaves smoothedPosition, smoothedRotation and smoothedScale as they
\* were; a later detected frame therefore snaps to its raw position only if
\* no position was ever set (or the blend happens to equal it).
C1_UndetectedKeepsSmoothedState ==
    [][/\ UndetectedStep =>
            /\ ~hat'.visible
            /\ smoothedPosition' = smoothedPosition
            /\ smoothedRotation' = smoothedRotation
            /\ smoothedScale' = smoothedScale
       /\ (DetectedStep /\ smoothedPosition # NULL /\ ~hat.visible) =>
            (smoothedPosition' = RawPosition(currentFaceData')
                => \/ settings.smoothing = RZero
                   \/ smoothedPosition = RawPosition(currentFaceData'))]_vars

\* C1 witness: an undetected frame was applied after a detected one, the hat
\* is hidden and the smoothed pose is still there
C1_Witness ==
    /\ HatPresent /\ ~hat.visible /\ last.updated /\ last.wasVisible
    /\ ~currentFaceData.detected
    /\ smoothedPosition # NULL /\ smoothedRotation # NULL
    /\ smoothedScale # ROne

\* C2: on the first detected frame of a fresh renderer smoothedScale equals
\* baseScale = faceWidth * 3 * settings.scale, whatever settings.smoothing is.
C2_FirstFrameScaleSnaps ==
    [][(DetectedStep /\ smoothedPosition = NULL /\ smoothedRotation = NULL)
          => smoothedScale' = RawScale(currentFaceData')]_vars

\* C3: on the first detected frame, with smoothedPosition and
\* smoothedRotation absent, the emitted position and rotation equal the raw
\* targets whatever settings.smoothing is, and both fields are present
\* afterwards.
C3_FirstFrameSnapsPose ==
    [][(DetectedStep /\ smoothedPosition = NULL /\ smoothedRotation = NULL) =>
          /\ smoothedPosition' = RawPosition(currentFaceData')
          /\ smoothedRotation' = RawRotation(currentFaceData')
          /\ hat'.position = RawPosition(currentFaceData')
          /\ hat'.rotation = RawRotation(currentFaceData')
          /\ hat'.visible
          /\ smoothedPosition' # NULL /\ smoothedRotation' # NULL]_vars

\* C3 witness: the first iteration applied a detected frame under a nonzero
\* smoothing factor and nonzero offsets or a turned head
C3_Witness ==
    /\ last.n = 1 /\ last.updated /\ ~last.wasSet
    /\ currentFaceData.detected
    /\ settings.smoothing # RZero
    /\ hat.visible
    /\ hat.position = RawPosition(currentFaceData)
    /\ hat.rotation # Vec(RZero, RZero, RZero)

\* a detected frame that follows a loss of detection: a pose was set, then
\* an undetected frame hid the hat
ResumptionStep == DetectedStep /\ smoothedPosition # NULL /\ ~hat.visible

\* C4 as stated: on the frame that resumes detection after a loss, position,
\* rotation and scale equal that frame's raw targets (a snap).
C4_ResumptionSnaps ==
    [][ResumptionStep =>
          /\ smoothedPosition' = RawPosition(currentFaceData')
          /\ smoothedRotation' = RawRotation(currentFaceData')
          /\ smoothedScale' = RawScale(currentFaceData')]_vars

\* C4 amended: on the frame that resumes detection after a loss, position,
\* rotation and scale are the blend previous * f + raw * (1 - f) of that
\* frame's raw targets with the smoothed state kept from before the loss.
C4_ResumptionBlends ==
    [][ResumptionStep =>
          /\ smoothedPosition' = Blend3(RawPosition(currentFaceData'),
                                        smoothedPosition, settings.smoothing)
          /\ smoothedRotation' = Blend3(RawRotation(currentFaceData'),
                                        smoothedRotation, settings.smoothing)
          /\ smoothedScale' = Blend(RawScale(currentFaceData'),
                                    smoothedScale, settings.smoothing)
          /\ hat' = [visible |-> TRUE, position |-> smoothedPosition',
                     rotation |-> smoothedRotation',
                     scale |-> smoothedScale']]_vars

\* C4 witness: detection resumed after a loss and the pose shown is not the
\* raw pose of the resuming frame
C4_Witness ==
    /\ last.updated /\ last.wasSet /\ ~last.wasVisible
    /\ currentFaceData.detected /\ hat.visible
    /\ hat.position # RawPosition(currentFaceData)
    /\ hat.scale # RawScale(currentFaceData)

\* C5: with a hat loaded, a frame for which the tracker reports no face is
\* rendered with the hat hidden, and the hat is visible at a render only if
\* the most recent tracker result had detected = true.
C5_HiddenWithinOneFrame ==
    HatPresent =>
        /\ (last.rendered /\ last.reply = "noface") => ~hat.visible
        /\ hat.visible => (currentFaceData # NULL /\ currentFaceData.detected)

\* C5 witness: a visible hat was hidden by the frame that lost the face
C5_Witness ==
    /\ HatPresent /\ last.rendered /\ last.reply = "noface"
    /\ last.wasVisible /\ last.running /\ ~hat.visible

\* C6: a face reported without a required landmark is handled as an
\* undetected frame: the hat is hidden, the smoothed state is unchanged and
\* the frame loop goes on (the iteration reschedules itself).
C6_MalformedFrameIsUndetected ==
    [][(IterationStep /\ last'.reply = "malformed") =>
          /\ ~hat'.visible
          /\ smoothedPosition' = smoothedPosition
          /\ smoothedRotation' = smoothedRotation
          /\ smoothedScale' = smoothedScale
          /\ last'.scheduled]_vars

\* C7: extractFaceData and updateHatPosition are invoked only once
\* MediaPipeHandler.init has succeeded; while the tracker is not ready (in
\* particular after a failed init) the camera cannot be started, no frame
\* loop exists and no iteration has run.
C7_CoreOnlyWhenTrackerReady ==
    /\ (last.extracted \/ last.updated \/ last.n > 0) => isReady
    /\ appPhase = "failed" => ~isReady
    /\ ~isReady =>
          /\ ~isRunning /\ ~startBtnDisabled
          /\ loop.send + loop.raf = 0
          /\ frames = 0 /\ currentFaceData = NULL
          /\ hat = NULL

\* C7 witness: the tracker failed to initialize
C7_Witness == appPhase = "failed" /\ ~isReady /\ ~isRunning

\* C8: when stopCamera ran while processFrame was in flight, the result is
\* discarded: no updateHatPosition, no render, the smoothed state and
\* hat.visible stay as they were, and no further frame is scheduled.
C8_ResultDiscardedAfterStop ==
    [][(IterationStep /\ ~isRunning) =>
          /\ ~last'.updated /\ ~last'.rendered /\ ~last'.scheduled
          /\ UNCHANGED <<hat, smoothedPosition, smoothedRotation,
                         smoothedScale>>]_vars

\* C9: every iteration that gets a tracker result runs updateHatPosition
\* once and then render, and no tracker call begins while an earlier one is
\* still awaited (frame N+1 starts after frame N's render).
C9_OneFrameAtATime ==
    /\ loop.send <= 1
    /\ (last.n > 0 /\ last.reply # "malformed") =>
          (last.updated /\ last.rendered)

C11_NoSmoothingFollowsTargets ==
    [][(DetectedStep /\ settings.smoothing = RZero) =>
          /\ smoothedPosition' = RawPosition(currentFaceData')
          /\ smoothedRotation' = RawRotation(currentFaceData')
          /\ smoothedScale' = RawScale(currentFaceData')
          /\ hat' = [visible |-> TRUE,
                     position |-> RawPosition(currentFaceData'),
                     rotation |-> RawRotation(currentFaceData'),
                     scale |-> RawScale(currentFaceData')]]_vars

\* C11 witness: with smoothing 0 a detected frame was applied over a pose set
\* by an earlier frame of another base scale, and the hat shows the frame's
\* own targets
C11_Witness ==
    /\ settings.smoothing = RZero
    /\ last.n >= 2 /\ last.updated /\ last.wasSet
    /\ currentFaceData.detected /\ hat.visible
    /\ seen.hi # ROne /\ RLt(RawScale(currentFaceData), seen.hi)
    /\ hat.scale = RawScale(currentFaceData)
    /\ hat.position = RawPosition(currentFaceData)
    /\ hat.rotation = RawRotation(currentFaceData)

\* the state after the first iteration of a fresh renderer applied a detected
\* frame under the initial settings (smoothing 0.5)
AfterFirstDetectedFrame ==
    /\ last.n = 1 /\ last.updated /\ ~last.wasSet
    /\ HatPresent /\ currentFaceData.detected
    /\ settingChanges = 0 /\ settings.smoothing = RHalf

\* C12: starting from a fresh renderer with smoothing 0.5, after two
\* consecutive detected frames with base scales b1 and b2 = 2 * b1, the second
\* frame's smoothedScale equals (b1 + b2) / 2 and does not equal b2.
C12_SecondFrameAveragesBaseScales ==
    [][(/\ AfterFirstDetectedFrame /\ DetectedStep
        /\ RawScale(currentFaceData')
              = RMul(RInt(2), RawScale(currentFaceData))) =>
          /\ smoothedScale' = RMul(RAdd(RawScale(currentFaceData),
                                        RawScale(currentFaceData')), RHalf)
          /\ smoothedScale' # RawScale(currentFaceData')]_vars

\* ------------------------------------------------- the pose extractor alone
\* HatTryOnApp.onFaceResults, called by the listener that
\* MediaPipeHandler.init registers, with what processResults extracted
onFaceResults(faceData) ==
    /\ isReady
    /\ currentFaceData' = faceData
    /\ UNCHANGED <<appPhase, isReady, rendererVars, settings, cameraVars,
                   loop, frames, settingChanges, last, seen>>

\* what processResults hands over for the faces of EyeLineSets
PoseDelivered ==
    {processResults([multiFaceLandmarks |-> <<l>>]) : l \in EyeLineSets}

\* the tracker is initialized and its listener registered
PoseInit ==
    /\ appPhase = "loadingHat" /\ isReady = TRUE
    /\ hat = NULL /\ hatLoaded = FALSE
    /\ smoothedPosition = NULL /\ smoothedRotation = NULL
    /\ smoothedScale = ROne
    /\ settings = [scale |-> ROne, yOffset |-> RZero, zOffset |-> RZero,
                   smoothing |-> RHalf]
    /\ isRunning = FALSE /\ startBtnDisabled = FALSE /\ videoWidth = FALSE
    /\ currentFaceData = NULL
    /\ loop = [send |-> 0, raf |-> 0]
    /\ frames = 0 /\ settingChanges = 0
    /\ last = NoIteration
    /\ seen = [lo |-> ROne, hi |-> ROne]

PoseNext == \E faceData \in PoseDelivered : onFaceResults(faceData)

PoseSpec == PoseInit /\ [][PoseNext]_vars

\* the eyes of the face last handed over, and whether they are level
LeftEye == currentFaceData.rawLandmarks["leftEye"]
RightEye == currentFaceData.rawLandmarks["rightEye"]
LevelEyes ==
    /\ currentFaceData # NULL /\ currentFaceData.detected
    /\ LeftEye.y = RightEye.y

\* C13 as stated: for every landmark set whose two eye landmarks have equal
\* y, calculateHeadRotation returns roll = 0, whatever the order of the eyes'
\* x coordinates (rightEye.x < leftEye.x and rightEye.x = leftEye.x included).
C13_LevelEyesRollZero ==
    LevelEyes => currentFaceData.rotation.roll = RZero

\* C13 amended: for every landmark set whose two eye landmarks have equal y,
\* calculateHeadRotation returns roll = 0 when rightEye.x >= leftEye.x and
\* roll = pi when rightEye.x < leftEye.x.
C13_LevelEyesRollByEyeOrder ==
    LevelEyes =>
        /\ RLt(LeftEye.x, RightEye.x) => currentFaceData.rotation.roll = RZero
        /\ LeftEye.x = RightEye.x => currentFaceData.rotation.roll = RZero
        /\ RLt(RightEye.x, LeftEye.x) => currentFaceData.rotation.roll = ROne

\* C13 witness: a face with level eyes, the right eye left of the left eye,
\* was extracted with roll = pi
C13_Witness ==
    /\ LevelEyes /\ RLt(RightEye.x, LeftEye.x)
    /\ currentFaceData.rotation.roll = ROne

\* C14: under any interleaving of start-button clicks, pending animation
\* frame callbacks and tracker calls in flight, at most one renderLoop chain
\* is live: stopping and restarting the camera before the old chain has seen
\* isRunning = false never leaves two chains running.
C14_AtMostOneLiveChain ==
    isRunning => loop.send + loop.raf <= 1

\* C15: updateHatPosition is called in an iteration only with face data that
\* onFaceResults delivered during that iteration; an iteration whose
\* processFrame produced no result (tracker not ready, no video width, no
\* callback) does not re-apply currentFaceData and leaves the smoothed state
\* as it was.
C15_OnlyFreshResultsApplied ==
    [][(IterationStep /\ last'.reply \notin {"face", "noface"}) =>
          /\ ~last'.updated
          /\ UNCHANGED <<smoothedPosition, smoothedRotation,
                         smoothedScale>>]_vars

====
